---- MODULE Spec2Model ----
(***************************************************************************)
(* stocks.utils.StockAnalyzer: the rule-based signal engine of the         *)
(* stock_tracker repository (src/stocks/utils.py).                         *)
(*                                                                         *)
(* A run of the model is one analysis of one price series:                 *)
(*   StockAnalyzer(ticker, prices_df)   -> Construct                       *)
(*   analyzer.generate_signals()        -> GenerateSignals                 *)
(*   analyzer.get_summary_stats(signals)-> GetSummaryStats                 *)
(* Further specifications call find_support_level on its own (SpecSupport),*)
(* analyse one series twice (SpecRepeat) and summarize any list of records *)
(* (SpecSummary).                                                          *)
(*                                                                         *)
(* Prices are whole numbers of currency units.  Every percentage the code  *)
(* computes as a float is kept as an exact fraction <<num, den>> in lowest *)
(* terms with den > 0, so that two percentages are equal exactly when the  *)
(* tuples are equal.  Indices are 0-based as in the source: Close(p, i) is *)
(* self.prices[i]['close_price'].                                          *)
(***************************************************************************)
EXTENDS Integers, Sequences, FiniteSets, TLC

VARIABLES prices_df, df, prices, signals, summary, support, pc

vars == <<prices_df, df, prices, signals, summary, support, pc>>

----------------------------------------------------------------------------
(* Bounds of the input family.                                             *)

\* Longest series analysed.
MaxLen == 12
\* Longest opening stretch drawn from EarlyPrices.
MaxEarly == 4

\* Longest series that may hold a zero quote.
MaxZeroLen == 7
\* Longest list of records handed to get_summary_stats directly.
MaxRecords == 3
\* Longest series whose support levels are queried one by one.
MaxSupportLen == 5
\* Largest lookback passed explicitly, besides the default.
MaxLookback == 3
\* Longest series that is analysed a second time.
MaxRepeatLen == 7

\* Close prices of the opening stretch: a far-away low and a level within 2%
\* of the later trading range.
EarlyPrices == {50, 96}
\* Close prices of the rest of the series: 100 -> 97 is a drop of exactly 3%.
RecentPrices == {97, 100}
\* Close prices of the series with zero quotes (MinValueValidator(0) admits 0).
ZeroQuotePrices == {0, 97, 100}

----------------------------------------------------------------------------
(* Program constants.                                                      *)

\* i < n - 5, prices[i+5], past_i = i - 5
Lookahead == 5
\* range(i-5, i) of the moving average, and its guard i >= 5
MaWindow == 5
\* find_support_level(self, current_index, lookback=20)
Lookback == 20
\* daily_change <= -3, past_drop <= -3
DropThreshold == -3
\* confidence = 50, += 20, += 15, += 15
BaseConfidence == 50
MaBonus == 20
VolumeBonus == 15
SupportBonus == 15
\* 'hold' if confidence < 60 else 'weak_buy'
WeakBuyConfidence == 60
\* near_support: ... < 0.02, in percent
NearSupportPct == 2

----------------------------------------------------------------------------
(* Exact fractions standing for the code's float percentages.              *)

\* None
Null == <<>>
\* float('nan'): 0.0 / 0.0 of a pandas column, a shifted-in missing value,
\* np.mean([])
NaN == <<0, 0>>
\* float('inf'): x / 0.0 of a pandas column, x > 0
Inf == <<1, 0>>

AbsInt(x) == IF x < 0 THEN -x ELSE x

RECURSIVE GCD(_, _)
GCD(a, b) == IF b = 0 THEN a ELSE GCD(b, a % b)

\* n / d in lowest terms, d > 0
Frac(n, d) ==
    LET g == GCD(AbsInt(n), d)
    IN  <<n \div g, d \div g>>

\* ((a - b) / b) * 100, for b > 0
Pct(a, b) == Frac((a - b) * 100, b)

\* x <= k and x > k for a fraction x and an integer k
FracLeq(x, k) == x[1] <= k * x[2]
FracGt(x, k) == x[1] > k * x[2]
\* abs(x)
FracAbs(x) == <<AbsInt(x[1]), x[2]>>

Max(a, b) == IF a >= b THEN a ELSE b
MinOf(S) == CHOOSE m \in S : \A x \in S : m <= x

RECURSIVE SumFromTo(_, _, _)
\* sum of self.prices[j]['close_price'] for j in range(lo, hi + 1)
SumFromTo(p, lo, hi) ==
    IF lo > hi THEN 0 ELSE p[lo + 1].close_price + SumFromTo(p, lo + 1, hi)

----------------------------------------------------------------------------
(* StockAnalyzer.__init__                                                  *)

\* self.prices[i]['close_price']
Close(p, i) == p[i + 1].close_price

RECURSIVE InsertByDate(_, _)
InsertByDate(s, r) ==
    IF s = <<>> THEN <<r>>
    ELSE IF s[Len(s)].date <= r.date THEN Append(s, r)
    ELSE Append(InsertByDate(SubSeq(s, 1, Len(s) - 1), r), s[Len(s)])

RECURSIVE SortByDate(_)
\* prices_df.sort_values('date').reset_index(drop=True)
SortByDate(s) ==
    IF s = <<>> THEN <<>>
    ELSE InsertByDate(SortByDate(SubSeq(s, 1, Len(s) - 1)), s[Len(s)])

\* (a - b) / b * 100 on a float64 column of non-negative prices: a zero
\* divisor gives inf or NaN, never an exception
ColumnPct(a, b) ==
    IF b = 0 THEN (IF a = 0 THEN NaN ELSE Inf) ELSE Pct(a, b)

\* the row of self.df at index i (0-based) of the sorted frame s; shift(1)
\* and shift(-5) leave NaN where no row is shifted in
FeatureRow(s, i) ==
    LET close == s[i + 1].close_price
        has_prev == i >= 1
        has_future == i + Lookahead < Len(s)
    IN  [date |-> s[i + 1].date,
         close_price |-> close,
         prev_close |-> IF has_prev THEN <<s[i].close_price, 1>> ELSE NaN,
         daily_change_pct |->
            IF has_prev THEN ColumnPct(close, s[i].close_price) ELSE NaN,
         future_price_5d |->
            IF has_future THEN <<s[i + 1 + Lookahead].close_price, 1>> ELSE NaN,
         profit_pct_5d |->
            IF has_future THEN ColumnPct(s[i + 1 + Lookahead].close_price, close)
            ELSE NaN]

\* self.df after the four helper columns are added
BuildFrame(s) == [k \in 1..Len(s) |-> FeatureRow(s, k - 1)]

\* self.prices: the list-of-dicts view of self.df[['date', 'close_price']]
PricesView(f) ==
    [k \in 1..Len(f) |-> [date |-> f[k].date, close_price |-> f[k].close_price]]

----------------------------------------------------------------------------
(* StockAnalyzer.find_support_level                                        *)

\* find_support_level scanning its own day too
find_support_level_OwnDay(p, current_index, lookback) ==
    LET start == Max(0, current_index - lookback)
        window == {Close(p, j) : j \in start..current_index}
    IN  IF window # {} THEN MinOf(window) ELSE Close(p, current_index)

find_support_level(p, current_index, lookback) ==
    LET start == Max(0, current_index - lookback)
        window == {Close(p, j) : j \in start..(current_index - 1)}
    IN  IF window # {} THEN MinOf(window) ELSE Close(p, current_index)

----------------------------------------------------------------------------
(* StockAnalyzer.generate_signals                                          *)

\* signal = 'hold'; price_drop = None; expected_profit = None; confidence = 0
DefaultSignal ==
    [signal |-> "hold", price_drop |-> Null, expected_profit |-> Null,
     confidence |-> 0]

\* if i >= 1 and i < n - 5
InBuyWindow(p, i) == i >= 1 /\ i < Len(p) - Lookahead

\* ((current_close - prev_close) / prev_close) * 100, prev_close # 0
daily_change(p, i) == Pct(Close(p, i), Close(p, i - 1))

\* Fault: the threshold test is strict, so a drop of exactly 3% is missed.
DropQualifies_Strict(change) == change[1] < DropThreshold * change[2]

\* Fault: the sign of the threshold is lost (daily_change <= 3).
DropQualifies_SignSlip(change) == FracLeq(change, -DropThreshold)

\* if daily_change <= -3
DropQualifies(change) == FracLeq(change, DropThreshold)

\* above_ma: i >= 5 and current_close > np.mean(prices[i-5 .. i-1])
above_ma(p, i) ==
    /\ i >= MaWindow
    /\ Close(p, i) * MaWindow > SumFromTo(p, i - MaWindow, i - 1)

\* Fault: the volume placeholder is off.
volume_increase_Off == FALSE

\* volume_increase = True
volume_increase == TRUE

\* abs(current_close - support_level) / support_level < 0.02, support_level # 0
near_support(p, i) ==
    LET support_level == find_support_level(p, i, Lookback)
    IN  AbsInt(Close(p, i) - support_level) * 100 < NearSupportPct * support_level

\* confidence = 50, += 20 if above_ma, += 15 if volume_increase,
\* += 15 if near_support
Confidence(p, i) ==
    BaseConfidence
    + (IF above_ma(p, i) THEN MaBonus ELSE 0)
    + (IF volume_increase THEN VolumeBonus ELSE 0)
    + (IF near_support(p, i) THEN SupportBonus ELSE 0)

\* ((future_price - current_close) / current_close) * 100, current_close # 0
profit_pct(p, i) == Pct(Close(p, i + Lookahead), Close(p, i))

\* Fault: the 5-day outcome is not looked at.
ProfitIsPositive_Always(profit) == TRUE

\* Fault: a flat 5-day outcome counts as a profit (profit_pct >= 0).
ProfitIsPositive_OrZero(profit) == profit[1] >= 0

\* if profit_pct > 0
ProfitIsPositive(profit) == FracGt(profit, 0)

\* The BUY evaluation of iteration i: the four locals after line 144.
BuyStep(p, i) ==
    IF InBuyWindow(p, i) /\ DropQualifies(daily_change(p, i))
    THEN IF ProfitIsPositive(profit_pct(p, i))
         THEN [signal |-> "buy",
               price_drop |-> FracAbs(daily_change(p, i)),
               expected_profit |-> profit_pct(p, i),
               confidence |-> Confidence(p, i)]
         ELSE [signal |->
                  IF Confidence(p, i) < WeakBuyConfidence THEN "hold" ELSE "weak_buy",
               price_drop |-> Null,
               expected_profit |-> Null,
               confidence |-> Confidence(p, i)]
    ELSE DefaultSignal

\* Fault: the SELL evaluation looks back one day too few.
past_i_OffByOne(i) == i - Lookahead + 1

\* past_i = i - 5
past_i(i) == i - Lookahead

\* if i >= 5: ... if past_i >= 1
InSellWindow(i) == i >= Lookahead /\ past_i(i) >= 1

\* ((past_current - past_prev) / past_prev) * 100, past_prev # 0
past_drop(p, i) == Pct(Close(p, past_i(i)), Close(p, past_i(i) - 1))

\* Fault: the realized profit is measured from the close before the drop.
actual_profit_FromPrevClose(p, i) == Pct(Close(p, i), Close(p, past_i(i) - 1))

\* ((sell_price - buy_price) / buy_price) * 100, buy_price # 0
actual_profit(p, i) == Pct(Close(p, i), Close(p, past_i(i)))

\* Fault: SELL is only assigned while the BUY evaluation left 'hold'.
SellStep_OnlyOverHold(p, i, r) ==
    IF InSellWindow(i) /\ DropQualifies(past_drop(p, i)) /\ r.signal = "hold"
    THEN [r EXCEPT !.signal = "sell", !.expected_profit = actual_profit(p, i)]
    ELSE r

\* Fault: SELL also resets price_drop and confidence.
SellStep_ResetsLocals(p, i, r) ==
    IF InSellWindow(i) /\ DropQualifies(past_drop(p, i))
    THEN [signal |-> "sell", price_drop |-> Null,
          expected_profit |-> actual_profit(p, i), confidence |-> 0]
    ELSE r

\* The SELL evaluation of iteration i applied to the locals r the BUY
\* evaluation left: it assigns signal and expected_profit only.
SellStep(p, i, r) ==
    IF InSellWindow(i) /\ DropQualifies(past_drop(p, i))
    THEN [r EXCEPT !.signal = "sell", !.expected_profit = actual_profit(p, i)]
    ELSE r

\* The dict appended by iteration i.
SignalAt(p, i) ==
    LET r == SellStep(p, i, BuyStep(p, i))
    IN  [date |-> p[i + 1].date,
         signal |-> r.signal,
         price_drop |-> r.price_drop,
         expected_profit |-> r.expected_profit,
         confidence |-> r.confidence,
         close_price |-> Close(p, i)]

\* Iteration i divides by zero in the BUY evaluation (lines 109, 125, 137):
\* the operands are Python floats, so ZeroDivisionError is raised.
BuyRaises(p, i) ==
    /\ InBuyWindow(p, i)
    /\ \/ Close(p, i - 1) = 0
       \/ /\ DropQualifies(daily_change(p, i))
          /\ \/ find_support_level(p, i, Lookback) = 0
             \/ Close(p, i) = 0

\* Iteration i divides by zero in the SELL evaluation (lines 152, 157).
SellRaises(p, i) ==
    /\ InSellWindow(i)
    /\ \/ Close(p, past_i(i) - 1) = 0
       \/ /\ DropQualifies(past_drop(p, i))
          /\ Close(p, past_i(i)) = 0

IterationRaises(p, i) == BuyRaises(p, i) \/ SellRaises(p, i)

\* generate_signals(): the returned list, or the exception that ends the loop
generate_signals(p) ==
    IF \E i \in 0..(Len(p) - 1) : IterationRaises(p, i)
    THEN [raised |-> TRUE, value |-> <<>>]
    ELSE [raised |-> FALSE, value |-> [k \in 1..Len(p) |-> SignalAt(p, k - 1)]]

----------------------------------------------------------------------------
(* StockAnalyzer.get_summary_stats                                         *)

\* Fault: 'weak_buy' records are counted with the 'hold' records.
SignalsOf_WeakAsHold(sigs, kind) ==
    SelectSeq(sigs, LAMBDA s : s.signal = kind \/ (kind = "hold" /\ s.signal = "weak_buy"))

\* [s for s in signals if s['signal'] == kind]
SignalsOf(sigs, kind) == SelectSeq(sigs, LAMBDA s : s.signal = kind)

\* `if s['price_drop']`, `if s['expected_profit']`: None and 0.0 are falsy
Truthy(v) == v # Null /\ v[1] # 0

\* [s[field] for s in buy_signals if s[field]]
TruthyValues(buys, field) ==
    LET kept == SelectSeq(buys, LAMBDA s : Truthy(s[field]))
    IN  [k \in 1..Len(kept) |-> kept[k][field]]

FracAdd(x, y) == Frac(x[1] * y[2] + y[1] * x[2], x[2] * y[2])
FracLess(x, y) == x[1] * y[2] < y[1] * x[2]

RECURSIVE FracSum(_)
FracSum(xs) == IF xs = <<>> THEN <<0, 1>> ELSE FracAdd(xs[1], FracSum(Tail(xs)))

\* np.mean(xs): NaN (with a warning, no exception) for the empty list
FracMean(xs) ==
    IF xs = <<>> THEN NaN
    ELSE LET t == FracSum(xs) IN Frac(t[1], t[2] * Len(xs))

\* max(xs, default=0) and min(xs, default=0)
FracMax(xs) ==
    IF xs = <<>> THEN <<0, 1>>
    ELSE xs[CHOOSE k \in 1..Len(xs) : \A j \in 1..Len(xs) : ~FracLess(xs[k], xs[j])]
FracMin(xs) ==
    IF xs = <<>> THEN <<0, 1>>
    ELSE xs[CHOOSE k \in 1..Len(xs) : \A j \in 1..Len(xs) : ~FracLess(xs[j], xs[k])]

\* round(x, 2): to the nearest hundredth, a tie to the even hundredth; NaN
\* stays NaN
Round2(x) ==
    IF x = NaN THEN NaN
    ELSE LET n == x[1] * 100
             q == n \div x[2]
             r == n - q * x[2]
             up == 2 * r > x[2] \/ (2 * r = x[2] /\ q % 2 = 1)
         IN  Frac(IF up THEN q + 1 ELSE q, 100)

\* s.get('expected_profit', 0) > 0 on a record whose expected_profit is None
\* compares None with 0: TypeError
SummaryRaises(sigs) ==
    \E k \in 1..Len(sigs) : sigs[k].signal = "buy" /\ sigs[k].expected_profit = Null

\* the dict get_summary_stats returns when no comparison raises
SummaryStats(sigs) ==
    LET buy_signals == SignalsOf(sigs, "buy")
        sell_signals == SignalsOf(sigs, "sell")
        hold_signals == SignalsOf(sigs, "hold")
        total_buys == Len(buy_signals)
        successful_buys ==
            Len(SelectSeq(buy_signals, LAMBDA s : FracGt(s.expected_profit, 0)))
        success_rate ==
            IF total_buys > 0 THEN Frac(successful_buys * 100, total_buys) ELSE <<0, 1>>
        avg_price_drop ==
            IF buy_signals # <<>> THEN FracMean(TruthyValues(buy_signals, "price_drop"))
            ELSE <<0, 1>>
        avg_profit ==
            IF buy_signals # <<>>
            THEN FracMean(TruthyValues(buy_signals, "expected_profit"))
            ELSE <<0, 1>>
    IN  [total_days |-> Len(sigs),
         buy_signals |-> total_buys,
         sell_signals |-> Len(sell_signals),
         hold_signals |-> Len(hold_signals),
         success_rate |-> Round2(success_rate),
         avg_price_drop |-> Round2(avg_price_drop),
         avg_profit |-> Round2(avg_profit),
         max_price_drop |-> Round2(FracMax(TruthyValues(buy_signals, "price_drop"))),
         min_price_drop |-> Round2(FracMin(TruthyValues(buy_signals, "price_drop")))]

NoSummary == [total_days |-> -1]

\* no support level has been asked for
NoSupport == [current_index |-> -1, lookback |-> 0, value |-> 0]

\* get_summary_stats(signals): the returned dict, or the exception
get_summary_stats(sigs) ==
    IF SummaryRaises(sigs)
    THEN [raised |-> TRUE, value |-> NoSummary]
    ELSE [raised |-> FALSE, value |-> SummaryStats(sigs)]

----------------------------------------------------------------------------
(* The analysed inputs and the run of one analysis.                        *)

\* a series of n rows dated 1..n (ascending, no duplicates) with closes c
SeriesOf(c) == [k \in 1..Len(c) |-> [date |-> k, close_price |-> c[k]]]

\* up to MaxEarly closes from EarlyPrices, then closes from RecentPrices, at
\* most MaxLen rows in all
InitTrend ==
    \E k \in 0..MaxEarly : \E m \in 0..(MaxLen - k) :
       \E e \in [1..k -> EarlyPrices] : \E r \in [1..m -> RecentPrices] :
          prices_df = SeriesOf(e \o r)

\* at most MaxZeroLen closes from ZeroQuotePrices
InitZeroQuote ==
    \E n \in 0..MaxZeroLen : \E c \in [1..n -> ZeroQuotePrices] :
       prices_df = SeriesOf(c)

\* The caller's frame is loaded; nothing is constructed yet.
Init ==
    /\ InitTrend \/ InitZeroQuote
    /\ df = <<>>
    /\ prices = <<>>
    /\ signals = <<>>
    /\ summary = NoSummary
    /\ support = NoSupport
    /\ pc = "new"

\* a constructor that sorts and extends the caller's frame in place
Construct_InPlace ==
    /\ pc = "new"
    /\ df' = BuildFrame(SortByDate(prices_df))
    /\ prices_df' = df'
    /\ prices' = PricesView(df')
    /\ pc' = "ready"
    /\ UNCHANGED <<signals, summary, support>>

\* analyzer = StockAnalyzer(ticker, prices_df)
Construct ==
    /\ pc = "new"
    /\ df' = BuildFrame(SortByDate(prices_df))
    /\ prices' = PricesView(df')
    /\ pc' = "ready"
    /\ UNCHANGED <<prices_df, signals, summary, support>>

\* signals = analyzer.generate_signals()
GenerateSignals ==
    /\ pc = "ready"
    /\ LET out == generate_signals(prices)
       IN  /\ signals' = out.value
           /\ pc' = IF out.raised THEN "raised" ELSE "done"
    /\ UNCHANGED <<prices_df, df, prices, summary, support>>

\* summary = analyzer.get_summary_stats(signals)
GetSummaryStats ==
    /\ pc = "done"
    /\ LET out == get_summary_stats(signals)
       IN  /\ summary' = out.value
           /\ pc' = IF out.raised THEN "summary_raised" ELSE "summarized"
    /\ UNCHANGED <<prices_df, df, prices, signals, support>>

Next == Construct \/ GenerateSignals \/ GetSummaryStats

Spec == Init /\ [][Next]_vars

----------------------------------------------------------------------------
(* find_support_level called on its own, for any index and lookback.       *)

\* the lookback windows asked for: a few short ones and the default
LookbackChoices == (1..MaxLookback) \cup {Lookback}

\* support = analyzer.find_support_level(current_index, lookback)
FindSupportLevel ==
    /\ pc # "new"
    /\ \E current_index \in 0..(Len(prices) - 1) : \E lookback \in LookbackChoices :
          support' = [current_index |-> current_index,
                      lookback |-> lookback,
                      value |-> find_support_level(prices, current_index, lookback)]
    /\ UNCHANGED <<prices_df, df, prices, signals, summary, pc>>

\* at most MaxSupportLen closes from EarlyPrices and RecentPrices
InitSupport ==
    /\ \E n \in 0..MaxSupportLen : \E c \in [1..n -> EarlyPrices \cup RecentPrices] :
          prices_df = SeriesOf(c)
    /\ df = <<>>
    /\ prices = <<>>
    /\ signals = <<>>
    /\ summary = NoSummary
    /\ support = NoSupport
    /\ pc = "new"

NextSupport == Construct \/ FindSupportLevel

SpecSupport == InitSupport /\ [][NextSupport]_vars

----------------------------------------------------------------------------
(* The same series analysed twice, by the same analyzer or by a fresh one. *)

\* analyzer = StockAnalyzer(ticker, prices_df), again on the caller's frame
Reconstruct ==
    /\ pc \in {"done", "summarized"}
    /\ df' = BuildFrame(SortByDate(prices_df))
    /\ prices' = PricesView(df')
    /\ pc' = "fresh"
    /\ UNCHANGED <<prices_df, signals, summary, support>>

\* signals = analyzer.generate_signals(), the second call on the series
Regenerate ==
    /\ pc \in {"done", "summarized", "fresh"}
    /\ LET out == generate_signals(prices)
       IN  /\ signals' = out.value
           /\ pc' = IF out.raised THEN "raised"
                    ELSE IF pc = "fresh" THEN "fresh_regenerated" ELSE "regenerated"
    /\ UNCHANGED <<prices_df, df, prices, summary, support>>

\* at most MaxRepeatLen closes from RecentPrices
InitRepeat ==
    /\ \E n \in 0..MaxRepeatLen : \E c \in [1..n -> RecentPrices] :
          prices_df = SeriesOf(c)
    /\ df = <<>>
    /\ prices = <<>>
    /\ signals = <<>>
    /\ summary = NoSummary
    /\ support = NoSupport
    /\ pc = "new"

NextRepeat ==
    \/ Construct
    \/ GenerateSignals
    \/ FindSupportLevel
    \/ GetSummaryStats
    \/ Reconstruct
    \/ Regenerate

SpecRepeat == InitRepeat /\ [][NextRepeat]_vars

----------------------------------------------------------------------------
(* get_summary_stats on any list of signal records: the caller hands it a  *)
(* list that need not come from generate_signals.                          *)

\* price_drop and expected_profit values of the records handed in: None, 0.0
\* and two non-zero percentages each
DropValues == {Null, <<0, 1>>, <<3, 1>>, <<5, 1>>}
ProfitValues == {Null, <<0, 1>>, <<-2, 1>>, <<4, 1>>}

\* the kinds of record handed in: every 'buy', and one record of each other
\* signal ('sell' carrying values that the buy-only statistics must skip)
RecordKinds ==
    [signal : {"buy"}, price_drop : DropValues, expected_profit : ProfitValues]
    \cup {[signal |-> "hold", price_drop |-> Null, expected_profit |-> Null],
          [signal |-> "weak_buy", price_drop |-> Null, expected_profit |-> Null],
          [signal |-> "sell", price_drop |-> <<5, 1>>, expected_profit |-> <<4, 1>>]}

\* the list of dicts with the kinds f[1], ..., f[n]
RecordsOf(f) ==
    [k \in 1..Len(f) |->
        [date |-> k,
         signal |-> f[k].signal,
         price_drop |-> f[k].price_drop,
         expected_profit |-> f[k].expected_profit,
         confidence |-> IF f[k].signal = "hold" THEN 0 ELSE BaseConfidence + VolumeBonus,
         close_price |-> 100]]

\* An analyzer of an empty frame is about to summarize a list of at most
\* MaxRecords records.
InitSummary ==
    /\ \E n \in 0..MaxRecords : \E f \in [1..n -> RecordKinds] :
          signals = RecordsOf(f)
    /\ prices_df = <<>>
    /\ df = <<>>
    /\ prices = <<>>
    /\ summary = NoSummary
    /\ support = NoSupport
    /\ pc = "done"

NextSummary == GetSummaryStats

SpecSummary == InitSummary /\ [][NextSummary]_vars

----------------------------------------------------------------------------
(* Vocabulary of the properties, stated on the closes themselves.          *)

\* generate_signals has returned its list
Returned == pc \in {"done", "summarized", "summary_raised"}
\* generate_signals has ended, by return or by exception
Ended == Returned \/ pc = "raised"
\* get_summary_stats has returned its dict
Summarized == pc = "summarized"

N == Len(prices)
C(i) == prices[i + 1].close_price
Sig(i) == signals[i + 1]
Indices == 0..(N - 1)

\* day i closed 3% or more below day i-1
DropAt(i) == i >= 1 /\ C(i - 1) > 0 /\ (C(i) - C(i - 1)) * 100 <= -3 * C(i - 1)
\* day i has a previous day and a full 5-day forward window
BuyWindow(i) == 1 <= i /\ i < N - 5
\* the SELL evaluation triggers at day i
SellAt(i) == i >= 6 /\ DropAt(i - 5)

----------------------------------------------------------------------------
\* C1: in the returned list, every index i >= 6 whose day i-5 dropped 3% or
\* more is 'sell' with expected_profit (close[i]-close[i-5])/close[i-5]*100,
\* whatever the BUY evaluation of index i set.
C1_SellAfterDrop ==
    Returned =>
        \A i \in Indices :
            (i >= 6 /\ DropAt(i - 5)) =>
                /\ Sig(i).signal = "sell"
                /\ Sig(i).expected_profit = Frac((C(i) - C(i - 5)) * 100, C(i - 5))

\* a 'sell' at an index that is itself a drop day inside the BUY window with a
\* positive 5-day profit: the BUY evaluation had set 'buy' there
C1_Witness ==
    /\ Returned
    /\ \E i \in Indices :
          /\ i >= 6 /\ DropAt(i - 5)
          /\ BuyWindow(i) /\ DropAt(i) /\ C(i + 5) > C(i)
          /\ Sig(i).signal = "sell"

\* C2: in the returned list, every index in the BUY window that dropped 3% or
\* more, closes higher five days on and is not hit by the SELL evaluation is
\* 'buy' with price_drop = |daily change| and expected_profit = the positive
\* 5-day profit.
C2_BuyOnProfitableDrop ==
    Returned =>
        \A i \in Indices :
            (BuyWindow(i) /\ DropAt(i) /\ C(i + 5) > C(i) /\ ~SellAt(i)) =>
                /\ Sig(i).signal = "buy"
                /\ Sig(i).price_drop = Frac((C(i - 1) - C(i)) * 100, C(i - 1))
                /\ Sig(i).expected_profit = Frac((C(i + 5) - C(i)) * 100, C(i))
                /\ Sig(i).expected_profit[1] > 0

C2_Witness ==
    /\ Returned
    /\ \E i \in Indices :
          /\ BuyWindow(i) /\ DropAt(i) /\ C(i + 5) > C(i) /\ ~SellAt(i)
          /\ Sig(i).signal = "buy"

\* C3: for a series of at most 6 points generate_signals returns, and every
\* record is 'hold' with confidence 0 and null price_drop and expected_profit.
C3_ShortSeriesAllHold ==
    (Ended /\ N <= 6) =>
        /\ Returned
        /\ Len(signals) = N
        /\ \A i \in Indices :
              /\ Sig(i).signal = "hold"
              /\ Sig(i).confidence = 0
              /\ Sig(i).price_drop = Null
              /\ Sig(i).expected_profit = Null

\* a 6-point series with a 3% drop at index 1 has been analysed
C3_Witness ==
    /\ Returned /\ N = 6 /\ Len(signals) = 6
    /\ DropAt(1)

\* C4: at every index of the BUY window that dropped 3% or more the
\* confidence is one of 65, 80, 85, 100; every confidence is within 0..100.
C4_ConfidenceValues ==
    Returned =>
        \A i \in Indices :
            /\ Sig(i).confidence \in 0..100
            /\ (BuyWindow(i) /\ DropAt(i)) => Sig(i).confidence \in {65, 80, 85, 100}

\* a drop day above its moving average and near its support after a drop day
\* that is neither above the average nor near the support
C4_Witness ==
    /\ Returned
    /\ \E i, j \in Indices :
          /\ BuyWindow(i) /\ DropAt(i) /\ Sig(i).confidence = 85
          /\ BuyWindow(j) /\ DropAt(j) /\ Sig(j).confidence = 65

\* the four confidence values of a drop day, each met in some returned list
C4_Reach65 == Returned /\ \E i \in Indices : DropAt(i) /\ Sig(i).confidence = 65
C4_Reach80 == Returned /\ \E i \in Indices : DropAt(i) /\ Sig(i).confidence = 80
C4_Reach85 == Returned /\ \E i \in Indices : DropAt(i) /\ Sig(i).confidence = 85
C4_Reach100 == Returned /\ \E i \in Indices : DropAt(i) /\ Sig(i).confidence = 100

\* C5: a 'sell' record keeps the price_drop and the confidence of the BUY
\* evaluation of its own index: price_drop is non-null (and is the size of
\* that day's drop) exactly when the index is a drop day of the BUY window
\* with positive 5-day profit, confidence is non-zero exactly when the index
\* is a drop day of the BUY window.
C5_SellKeepsDropAndConfidence ==
    Returned =>
        \A i \in Indices :
            Sig(i).signal = "sell" =>
                /\ Sig(i).price_drop # Null
                      <=> (BuyWindow(i) /\ DropAt(i) /\ C(i + 5) > C(i))
                /\ Sig(i).price_drop # Null
                      => Sig(i).price_drop = Frac((C(i - 1) - C(i)) * 100, C(i - 1))
                /\ Sig(i).confidence # 0 <=> (BuyWindow(i) /\ DropAt(i))

\* a 'sell' record carrying the price_drop and the confidence of its own day
C5_Witness ==
    /\ Returned
    /\ \E i \in Indices :
          Sig(i).signal = "sell" /\ Sig(i).price_drop # Null /\ Sig(i).confidence # 0

\* a 'sell' record carrying a confidence but no price_drop
C5_ReachConfidenceOnly ==
    /\ Returned
    /\ \E i \in Indices :
          Sig(i).signal = "sell" /\ Sig(i).price_drop = Null /\ Sig(i).confidence # 0

\* C7: in the returned list, every index in the BUY window that dropped 3% or
\* more, does not close higher five days on and is not hit by the SELL
\* evaluation is 'weak_buy' if its confidence is >= 60 and 'hold' otherwise,
\* with null price_drop and expected_profit.
C7_WeakBuyOnUnprofitableDrop ==
    Returned =>
        \A i \in Indices :
            (BuyWindow(i) /\ DropAt(i) /\ C(i + 5) <= C(i) /\ ~SellAt(i)) =>
                /\ Sig(i).signal = IF Sig(i).confidence >= 60 THEN "weak_buy" ELSE "hold"
                /\ Sig(i).price_drop = Null
                /\ Sig(i).expected_profit = Null

\* a drop day whose close five days on is the same, recorded as 'weak_buy'
C7_Witness ==
    /\ Returned
    /\ \E i \in Indices :
          /\ BuyWindow(i) /\ DropAt(i) /\ C(i + 5) = C(i) /\ ~SellAt(i)
          /\ Sig(i).signal = "weak_buy"

\* C8: a record is 'buy' or 'weak_buy', or has a price_drop, or a non-zero
\* confidence, only at a drop day inside the BUY window; index 0 and the last
\* five indices have confidence 0 and null price_drop.
C8_BuyOnlyInWindow ==
    Returned =>
        \A i \in Indices :
            /\ (\/ Sig(i).signal \in {"buy", "weak_buy"}
                \/ Sig(i).price_drop # Null
                \/ Sig(i).confidence # 0) => (BuyWindow(i) /\ DropAt(i))
            /\ (i = 0 \/ i >= N - 5) =>
                   (Sig(i).confidence = 0 /\ Sig(i).price_drop = Null)

\* a drop day among the last five indices, and a rise inside the BUY window
C8_Witness ==
    /\ Returned
    /\ \E i \in Indices : i >= N - 5 /\ DropAt(i) /\ Sig(i).confidence = 0
    /\ \E i \in Indices : BuyWindow(i) /\ C(i) > C(i - 1) /\ Sig(i).signal = "hold"

\* C6: generate_signals never raises on a zero close: whenever some close of
\* the series is zero it still returns one record per index.
C6_ZeroCloseNeverRaises ==
    (Ended /\ \E i \in Indices : C(i) = 0) =>
        (Returned /\ Len(signals) = N)

\* C9: generate_signals returns, and its list has one record per input row,
\* record i carrying the date and close_price of input row i.
C9_OneRecordPerPoint ==
    Ended =>
        /\ Returned
        /\ Len(signals) = Len(prices_df)
        /\ \A k \in 1..Len(signals) :
              /\ signals[k].date = prices_df[k].date
              /\ signals[k].close_price = prices_df[k].close_price

\* What does hold of C9: every list that is returned has one record per input
\* row, in order.
ReturnedOneRecordPerPoint ==
    Returned =>
        /\ Len(signals) = Len(prices_df)
        /\ \A k \in 1..Len(signals) :
              /\ signals[k].date = prices_df[k].date
              /\ signals[k].close_price = prices_df[k].close_price

----------------------------------------------------------------------------
(* Properties of get_summary_stats on any list of records.                 *)

\* get_summary_stats has ended, by return or by exception
SummaryEnded == pc \in {"summarized", "summary_raised"}
\* the positions of the 'buy' records of the list
Buys == {k \in 1..Len(signals) : signals[k].signal = "buy"}
\* the 'buy' records with a positive expected_profit
ProfitableBuys ==
    {k \in Buys : signals[k].expected_profit # Null /\ signals[k].expected_profit[1] > 0}

\* C10: buy_signals, sell_signals and hold_signals count the 'buy', 'sell'
\* and 'hold' records, total_days is the length of the list, and the three
\* counts add up to total_days less the number of 'weak_buy' records.
C10_SummaryCounts ==
    Summarized =>
        /\ summary.total_days = Len(signals)
        /\ summary.buy_signals = Cardinality({k \in 1..Len(signals) : signals[k].signal = "buy"})
        /\ summary.sell_signals = Cardinality({k \in 1..Len(signals) : signals[k].signal = "sell"})
        /\ summary.hold_signals = Cardinality({k \in 1..Len(signals) : signals[k].signal = "hold"})
        /\ summary.buy_signals + summary.sell_signals + summary.hold_signals
              = summary.total_days
                - Cardinality({k \in 1..Len(signals) : signals[k].signal = "weak_buy"})

\* a summary of a list holding all four kinds of record
C10_Witness ==
    /\ Summarized
    /\ \A kind \in {"buy", "sell", "hold", "weak_buy"} :
          \E k \in 1..Len(signals) : signals[k].signal = kind
    /\ summary.buy_signals + summary.sell_signals + summary.hold_signals
          < summary.total_days

\* C11: for any list of records get_summary_stats returns, with success_rate
\* = profitable buys / buys * 100 (to two decimals), within 0..100, and 0 when
\* the list has no 'buy' record; it does not raise, also when a 'buy' record
\* has a null expected_profit.
C11_SuccessRate ==
    SummaryEnded =>
        /\ pc = "summarized"
        /\ summary.success_rate =
              IF Buys = {} THEN <<0, 1>>
              ELSE Round2(Frac(Cardinality(ProfitableBuys) * 100, Cardinality(Buys)))
        /\ 0 <= summary.success_rate[1]
        /\ summary.success_rate[1] <= 100 * summary.success_rate[2]

\* What does hold of C11: whenever get_summary_stats returns, success_rate is
\* as stated.
ReturnedSuccessRate ==
    Summarized =>
        /\ summary.success_rate =
              IF Buys = {} THEN <<0, 1>>
              ELSE Round2(Frac(Cardinality(ProfitableBuys) * 100, Cardinality(Buys)))
        /\ 0 <= summary.success_rate[1]
        /\ summary.success_rate[1] <= 100 * summary.success_rate[2]

\* the non-null values of a field over the 'buy' records, 0 included
NonNullBuyValues(field) ==
    LET buys == SelectSeq(signals, LAMBDA s : s.signal = "buy")
    IN  SelectSeq([k \in 1..Len(buys) |-> buys[k][field]], LAMBDA v : v # Null)

\* C12: for any list of records, avg_price_drop and avg_profit are the mean, and
\* max_price_drop and min_price_drop the max and min, of the non-null price_drop
\* (resp. expected_profit) values of the 'buy' records, a value of 0 included,
\* and each of the four is 0 when no 'buy' record has a non-null value.
C12_BuyStatistics ==
    Summarized =>
        LET drops == NonNullBuyValues("price_drop")
            profits == NonNullBuyValues("expected_profit")
        IN  /\ summary.avg_price_drop =
                  IF drops = <<>> THEN <<0, 1>> ELSE Round2(FracMean(drops))
            /\ summary.avg_profit =
                  IF profits = <<>> THEN <<0, 1>> ELSE Round2(FracMean(profits))
            /\ summary.max_price_drop =
                  IF drops = <<>> THEN <<0, 1>> ELSE Round2(FracMax(drops))
            /\ summary.min_price_drop =
                  IF drops = <<>> THEN <<0, 1>> ELSE Round2(FracMin(drops))

\* What does hold of C12: a list without 'buy' records has the four statistics
\* at 0, and max_price_drop and min_price_drop are 0 when all price_drop values
\* of the 'buy' records are null.
NoBuyStatisticsZero ==
    Summarized =>
        /\ Buys = {} =>
              /\ summary.avg_price_drop = <<0, 1>>
              /\ summary.avg_profit = <<0, 1>>
        /\ NonNullBuyValues("price_drop") = <<>> =>
              /\ summary.max_price_drop = <<0, 1>>
              /\ summary.min_price_drop = <<0, 1>>

\* the number of records of a kind in the returned list
CountOf(kind) == Cardinality({i \in Indices : Sig(i).signal = kind})

\* C15: every drop day i of the BUY window (1 <= i < n-5, change <= -3%) is
\* closed out five days later, whatever record i itself is: record i+5 is
\* 'sell' with expected_profit (close[i+5]-close[i])/close[i]*100, the profit
\* a 'buy' at i carries; every 'sell' at k has a drop day at k-5; so there are
\* at least as many 'sell' records as 'buy' and 'weak_buy' records together.
C15_DropClosedOutAfterFiveDays ==
    Returned =>
        /\ \A i \in Indices :
              (BuyWindow(i) /\ DropAt(i)) =>
                  /\ Sig(i).signal \in {"buy", "weak_buy", "sell"}
                  /\ Sig(i + 5).signal = "sell"
                  /\ Sig(i + 5).expected_profit = Frac((C(i + 5) - C(i)) * 100, C(i))
                  /\ Sig(i).signal = "buy" =>
                        Sig(i + 5).expected_profit = Sig(i).expected_profit
        /\ \A k \in Indices :
              Sig(k).signal = "sell" => (k >= 6 /\ BuyWindow(k - 5) /\ DropAt(k - 5))
        /\ CountOf("sell") >= CountOf("buy") + CountOf("weak_buy")

\* a list in which one drop day is 'buy', one 'weak_buy' and one 'sell', each
\* closed out five days later
C15_Witness ==
    /\ Returned
    /\ \E i, j, k \in Indices :
          /\ BuyWindow(i) /\ DropAt(i) /\ Sig(i).signal = "buy"
          /\ BuyWindow(j) /\ DropAt(j) /\ Sig(j).signal = "weak_buy"
          /\ BuyWindow(k) /\ DropAt(k) /\ Sig(k).signal = "sell"
          /\ Sig(i + 5).signal = "sell"
          /\ Sig(j + 5).signal = "sell"
          /\ Sig(k + 5).signal = "sell"

\* C16: in every returned list each 'buy' has expected_profit > 0 and
\* price_drop >= 3, and each 'hold' has confidence 0 and null price_drop and
\* expected_profit; so the summary of a returned list is computed without an
\* exception and its success_rate is exactly 0 (no 'buy') or exactly 100.
C16_BuysAreProfitable ==
    /\ Returned =>
          \A i \in Indices :
              /\ Sig(i).signal = "buy" =>
                    /\ Sig(i).expected_profit # Null
                    /\ Sig(i).expected_profit[1] > 0
                    /\ Sig(i).price_drop # Null
                    /\ Sig(i).price_drop[1] >= 3 * Sig(i).price_drop[2]
              /\ Sig(i).signal = "hold" =>
                    /\ Sig(i).confidence = 0
                    /\ Sig(i).price_drop = Null
                    /\ Sig(i).expected_profit = Null
    /\ pc # "summary_raised"
    /\ Summarized =>
          summary.success_rate = IF CountOf("buy") = 0 THEN <<0, 1>> ELSE <<100, 1>>

\* a summarized list with two 'buy' records, a 'weak_buy' and a success_rate
\* of 100
C16_Witness ==
    /\ Summarized
    /\ CountOf("buy") >= 2
    /\ CountOf("weak_buy") >= 1
    /\ summary.success_rate = <<100, 1>>

\* a summarized list with 'weak_buy' and 'sell' records, no 'buy' and a
\* success_rate of 0
C16_ReachNoBuys ==
    /\ Summarized
    /\ CountOf("buy") = 0
    /\ CountOf("weak_buy") >= 1
    /\ CountOf("sell") >= 1
    /\ summary.success_rate = <<0, 1>>

----------------------------------------------------------------------------
(* Properties of find_support_level called on its own.                     *)

\* a support level has been computed
Supported == support # NoSupport
\* the indices find_support_level scans for the recorded call
SupportWindow ==
    {j \in Indices : j < support.current_index
                     /\ j >= support.current_index - support.lookback}

\* C13: find_support_level(i, lookback) returns the minimum close over the
\* indices max(0, i-lookback) .. i-1, index i excluded, and close[i] when that
\* window is empty (i = 0); so for i >= 1 it is at most close[i-1], whatever
\* close[i] and the closes before i-lookback are.
C13_SupportIsWindowMinimum ==
    Supported =>
        /\ SupportWindow = {} <=> support.current_index = 0
        /\ SupportWindow = {} => support.value = C(support.current_index)
        /\ SupportWindow # {} =>
              /\ \E j \in SupportWindow : support.value = C(j)
              /\ \A j \in SupportWindow : support.value <= C(j)
        /\ support.current_index >= 1 => support.value <= C(support.current_index - 1)

\* a support level above the close of its own day and above a close that lies
\* before the window
C13_Witness ==
    /\ Supported
    /\ support.current_index >= 1
    /\ C(support.current_index) < support.value
    /\ \E j \in Indices : /\ j < support.current_index - support.lookback
                          /\ C(j) < support.value

----------------------------------------------------------------------------
(* Properties of the repeated analysis.                                    *)

\* generate_signals has returned for the second time on the series
Regenerated == pc \in {"regenerated", "fresh_regenerated"}

C14_ReachSameAnalyzer ==
    /\ pc = "regenerated"
    /\ \E i \in Indices : Sig(i).signal = "buy"
    /\ \E i \in Indices : Sig(i).signal = "sell"

====
